---- MODULE Spec2Model ----
(***************************************************************************)
(* Model of src/email/app-gemini.py: the Streamlit page that lists HTML    *)
(* templates, previews and sends them, and asks a generative model to      *)
(* rewrite the selected template (fence stripping, validation, saving a    *)
(* timestamped copy).                                                      *)
(*                                                                         *)
(* Text is modelled as a sequence of one-character strings, so that        *)
(* startswith/endswith/slicing/strip are computed character by character.  *)
(***************************************************************************)
EXTENDS Integers, Sequences, FiniteSets, TLC

VARIABLES
    files,            \* the templates directory: file name -> file content
    api_key,          \* os.getenv("GEMINI_API_KEY") is set (line 113)
    now,              \* datetime.now(), in seconds after StartDate 00:00:00
    html_selector,    \* value of the selectbox widget (key "html_selector")
    session_state,    \* st.session_state: the four fields of lines 152-159
    entry,            \* session_state when the run of the last user action reached line 240
    messages,         \* st.warning/st.error/st.success calls of the last action
    gen_calls,        \* generate_content calls made by the last action
    gen_request,      \* template text and instruction of the last generation call
    response_text,    \* response.text of the last generation call
    modified_html,    \* local modified_html after line 280 of the last rewrite
    outcome,          \* branch the last action ended in
    written           \* name of the file the last action wrote (<<>>: none)

vars == <<files, api_key, now, html_selector, session_state, entry, messages, gen_calls,
          gen_request, response_text, modified_html, outcome, written>>

----------------------------------------------------------------------------
(* Bounds of the model *)

\* datetime.now() takes the values 0..MaxClock seconds
MaxClock == 1
\* the directory is not let grow beyond this number of files
MaxFiles == 4
\* length of the long response body (longer than the diagnostic's 200 characters)
LongLen == 203

\* modified_html[:200], line 283
DiagnosticLen == 200

----------------------------------------------------------------------------
(* Python string primitives *)

Min(a, b) == IF a < b THEN a ELSE b

\* str.strip() removes leading and trailing whitespace
IsSpace(c) == c \in {" ", "\n", "\t"}

RECURSIVE LStrip(_)
LStrip(s) == IF s = <<>> \/ ~IsSpace(Head(s)) THEN s ELSE LStrip(Tail(s))

RECURSIVE RStrip(_)
RStrip(s) ==
    IF s = <<>> \/ ~IsSpace(s[Len(s)]) THEN s ELSE RStrip(SubSeq(s, 1, Len(s) - 1))

Strip(s) == RStrip(LStrip(s))

\* s.startswith(p)
StartsWith(s, p) == Len(s) >= Len(p) /\ SubSeq(s, 1, Len(p)) = p

\* s.endswith(p)
EndsWith(s, p) == Len(s) >= Len(p) /\ SubSeq(s, Len(s) - Len(p) + 1, Len(s)) = p

\* s[a:-b] for a >= 0, 0 < b <= len(s): empty when the two cuts overlap
Slice(s, a, b) == SubSeq(s, a + 1, Len(s) - b)

\* s[:n]
Take(s, n) == SubSeq(s, 1, Min(n, Len(s)))

\* stands for the backquote character (U+0060) of the fence markers
Backtick == "~"

\* the three fence markers of lines 274-279
Fence == <<Backtick, Backtick, Backtick>>
FenceHtml == Fence \o <<"h", "t", "m", "l">>
FenceHtmlNl == FenceHtml \o <<"\n">>
NlFence == <<"\n">> \o Fence

----------------------------------------------------------------------------
(* Response sanitizer and validator, lines 272-282 *)

\* mutant: rule 1 cuts one character too many at the front
StripFences_OffByOne(t) ==
    IF StartsWith(t, FenceHtmlNl) /\ EndsWith(t, NlFence)
    THEN Slice(t, Len(FenceHtmlNl) + 1, Len(NlFence))
    ELSE IF StartsWith(t, FenceHtml) /\ EndsWith(t, Fence)
    THEN Slice(t, Len(FenceHtml), Len(Fence))
    ELSE IF StartsWith(t, Fence) /\ EndsWith(t, Fence)
    THEN Slice(t, Len(Fence), Len(Fence))
    ELSE t

\* mutant: rule 3 asks for an opening OR a closing fence
StripFences_EitherEnd(t) ==
    IF StartsWith(t, FenceHtmlNl) /\ EndsWith(t, NlFence)
    THEN Slice(t, Len(FenceHtmlNl), Len(NlFence))
    ELSE IF StartsWith(t, FenceHtml) /\ EndsWith(t, Fence)
    THEN Slice(t, Len(FenceHtml), Len(Fence))
    ELSE IF StartsWith(t, Fence) \/ EndsWith(t, Fence)
    THEN Slice(t, Min(Len(Fence), Len(t)), Min(Len(Fence), Len(t)))
    ELSE t

\* mutant: the generic rule is tried first
StripFences_GenericFirst(t) ==
    IF StartsWith(t, Fence) /\ EndsWith(t, Fence)
    THEN Slice(t, Len(Fence), Len(Fence))
    ELSE IF StartsWith(t, FenceHtmlNl) /\ EndsWith(t, NlFence)
    THEN Slice(t, Len(FenceHtmlNl), Len(NlFence))
    ELSE IF StartsWith(t, FenceHtml) /\ EndsWith(t, Fence)
    THEN Slice(t, Len(FenceHtml), Len(Fence))
    ELSE t

\* the if/elif/elif of lines 274-279
StripFences(t) ==
    IF StartsWith(t, FenceHtmlNl) /\ EndsWith(t, NlFence)
    THEN Slice(t, Len(FenceHtmlNl), Len(NlFence))
    ELSE IF StartsWith(t, FenceHtml) /\ EndsWith(t, Fence)
    THEN Slice(t, Len(FenceHtml), Len(Fence))
    ELSE IF StartsWith(t, Fence) /\ EndsWith(t, Fence)
    THEN Slice(t, Len(Fence), Len(Fence))
    ELSE t

\* response.text.strip(), the fence rules, then strip() again
Sanitize(text) == Strip(StripFences(Strip(text)))

\* mutant: "or" in place of "and"
IsValidHtml_Or(s) == StartsWith(s, <<"<">>) \/ EndsWith(s, <<">">>)

\* the test of line 282
IsValidHtml(s) == StartsWith(s, <<"<">>) /\ EndsWith(s, <<">">>)

----------------------------------------------------------------------------
(* Template store and file names *)

\* None / "" for a file name
NoName == <<>>

DotHtml == <<".", "h", "t", "m", "l">>

\* get_html_files: the entries of the directory that end with ".html"
HtmlFiles(fs) == {f \in DOMAIN fs : EndsWith(f, DotHtml)}

\* index of the last "." of p, 0 when there is none
LastDot(p) ==
    LET dots == {i \in 1..Len(p) : p[i] = "."}
    IN  IF dots = {} THEN 0 ELSE CHOOSE i \in dots : \A j \in dots : j <= i

\* os.path.splitext for a name without directory separators: the extension starts
\* at the last dot unless only dots precede it
SplitExt(p) ==
    LET d == LastDot(p)
    IN  IF d > 0 /\ (\E k \in 1..(d - 1) : p[k] # ".")
        THEN <<SubSeq(p, 1, d - 1), SubSeq(p, d, Len(p))>>
        ELSE <<p, <<>>>>

Digit(d) == <<"0", "1", "2", "3", "4", "5", "6", "7", "8", "9">>[d + 1]

\* n as w decimal digits, zero padded
RECURSIVE Pad(_, _)
Pad(n, w) == IF w = 0 THEN <<>> ELSE Pad(n \div 10, w - 1) \o <<Digit(n % 10)>>

\* the day on which the page runs: year, month, day
StartDate == <<2025, 6, 15>>

\* datetime.now().strftime("%Y%m%d_%H%M%S"), t seconds into StartDate
Strftime(t) ==
    Pad(StartDate[1], 4) \o Pad(StartDate[2], 2) \o Pad(StartDate[3], 2) \o <<"_">>
    \o Pad(t \div 3600, 2) \o Pad((t \div 60) % 60, 2) \o Pad(t % 60, 2)

AiEdited == <<"_", "a", "i", "_", "e", "d", "i", "t", "e", "d", "_">>

\* mutant: the copy is saved under the template's own name
NewFilename_InPlace(original, t) == original

\* f"{base}_ai_edited_{timestamp_str}{ext}"
NewFilename(original, t) ==
    LET se == SplitExt(original)
    IN  se[1] \o AiEdited \o Strftime(t) \o se[2]

----------------------------------------------------------------------------
(* Session state and user feedback *)

Msg(level, kind, detail) == [level |-> level, kind |-> kind, detail |-> detail]

Dots == <<".", ".", ".">>

\* mutant: the diagnostic quotes fewer characters
InvalidHtmlMessage_Short(mh) == Msg("error", "invalid_html", Take(mh, 2) \o Dots)

\* f"AI response did not seem to be valid HTML. Got: {modified_html[:200]}..."
InvalidHtmlMessage(mh) == Msg("error", "invalid_html", Take(mh, DiagnosticLen) \o Dots)

\* the condition of line 178
NeedsLoad(ss, option) ==
    option # NoName
    /\ (ss.selected_file_name # option \/ ss.selected_file_content = <<>>)

\* lines 163-189: the selectbox section of one script run, option being the value
\* the selectbox returns and readOk whether open/read succeeds
ScriptTop(ss, fs, option, readOk) ==
    IF HtmlFiles(fs) = {} \/ ~NeedsLoad(ss, option) THEN ss
    ELSE IF readOk
    THEN [ss EXCEPT !.selected_file_name = option,
                    !.selected_file_content = fs[option],
                    !.displayed_html_content = fs[option]]
    ELSE [ss EXCEPT !.selected_file_name = option,
                    !.selected_file_content = <<>>,
                    !.displayed_html_content = <<>>]

\* st.error of line 187
TopMessages(ss, fs, option, readOk) ==
    IF HtmlFiles(fs) # {} /\ NeedsLoad(ss, option) /\ ~readOk
    THEN <<Msg("error", "read_failed", option)>>
    ELSE <<>>

\* mutant: the instruction is tested without strip()
GuardOutcome_NoStrip(ss, key) ==
    IF ss.ai_prompt_input = <<>> THEN "no_prompt"
    ELSE IF ~key THEN "no_api_key"
    ELSE IF ss.selected_file_content = <<>> THEN "no_template"
    ELSE "ok"

\* the guards of lines 241-247
GuardOutcome(ss, key) ==
    IF Strip(ss.ai_prompt_input) = <<>> THEN "no_prompt"
    ELSE IF ~key THEN "no_api_key"
    ELSE IF ss.selected_file_content = <<>> THEN "no_template"
    ELSE "ok"

\* st.warning / st.error of lines 243, 245, 247
GuardMessage(guard) ==
    Msg(IF guard = "no_api_key" THEN "error" ELSE "warning", guard, <<>>)

NoRequest == [html |-> <<>>, instruction |-> <<>>]

\* mutant: the prompt embeds what is displayed
BuildRequest_FromDisplayed(ss) ==
    [html |-> ss.displayed_html_content, instruction |-> Strip(ss.ai_prompt_input)]

\* lines 241 and 257-261: the variable parts of the prompt
BuildRequest(ss) ==
    [html |-> ss.selected_file_content, instruction |-> Strip(ss.ai_prompt_input)]

\* lines 287-298: writeRes is "ok", "open_failed" (no file touched) or
\* "write_failed" (open(..., "w") created or truncated the file, write raised)
SaveCopy(fs, ss, t, mh, writeRes) ==
    LET original == ss.selected_file_name
        new_filename == NewFilename(original, t)
    IN  IF original = NoName
        THEN [files |-> fs, written |-> NoName, saved |-> FALSE, messages |-> <<>>]
        ELSE IF writeRes = "ok"
        THEN [files |-> (new_filename :> mh) @@ fs, written |-> new_filename,
              saved |-> TRUE,
              messages |-> <<Msg("success", "saved", new_filename)>>]
        ELSE IF writeRes = "write_failed"
        THEN [files |-> (new_filename :> <<>>) @@ fs, written |-> new_filename,
              saved |-> FALSE,
              messages |-> <<Msg("error", "save_failed", <<>>)>>]
        ELSE [files |-> fs, written |-> NoName, saved |-> FALSE,
              messages |-> <<Msg("error", "save_failed", <<>>)>>]

\* mutant: the handler falls back to the file content on display
GenerationError_Reset(r, fs, option, readOk) ==
    [r EXCEPT !.outcome = "gen_failed",
              !.messages = r.messages \o <<Msg("error", "gen_failed", <<>>)>>,
              !.ss = [r.ss EXCEPT !.displayed_html_content = r.ss.selected_file_content]]

\* lines 303-306: st.error, then st.rerun() runs the script once more
GenerationError(r, fs, option, readOk) ==
    [r EXCEPT !.outcome = "gen_failed",
              !.messages = r.messages \o <<Msg("error", "gen_failed", <<>>)>>,
              !.ss = ScriptTop(r.ss, fs, option, readOk)]

\* lines 282-284: the validator rejects
Rejected(r) ==
    [r EXCEPT !.outcome = "rejected",
              !.messages = r.messages \o <<InvalidHtmlMessage(r.modified_html)>>]

\* lines 285-301: the validator accepts; st.rerun() runs the script once more, and
\* its text_area (line 233) returns "" or, when the widget keeps its own value,
\* the text typed before
Accepted(r, t, option, readOk, writeRes, keepText) ==
    LET ss2 == [r.ss EXCEPT !.displayed_html_content = r.modified_html]
        save == SaveCopy(r.files, ss2, t, r.modified_html, writeRes)
        ss3 == [ss2 EXCEPT !.ai_prompt_input = <<>>]
        ss4 == ScriptTop(ss3, save.files, option, readOk)
    IN  [r EXCEPT !.ss = [ss4 EXCEPT !.ai_prompt_input =
                              IF keepText THEN r.ss.ai_prompt_input ELSE <<>>],
                  !.files = save.files,
                  !.written = save.written,
                  !.messages = r.messages \o save.messages,
                  !.outcome = IF save.saved THEN "saved" ELSE "save_failed"]

\* lines 240-306: one run of the script with "Generate AI Changes" clicked.
\* gen is the result of generate_content: [ok |-> FALSE] when it (or .text) raises
RewriteRun(ss0, fs, key, t, option, gen, readOk, writeRes, keepText) ==
    LET ss1 == ScriptTop(ss0, fs, option, readOk)
        guard == GuardOutcome(ss1, key)
        start == [ss |-> ss1, entry |-> ss1, files |-> fs,
                  messages |-> TopMessages(ss0, fs, option, readOk),
                  gen_calls |-> 0, gen_request |-> NoRequest,
                  response_text |-> <<>>, modified_html |-> <<>>,
                  outcome |-> guard, written |-> NoName]
    IN  IF guard # "ok"
        THEN [start EXCEPT !.messages = start.messages \o <<GuardMessage(guard)>>]
        ELSE LET called == [start EXCEPT !.gen_calls = 1,
                                         !.gen_request = BuildRequest(ss1)]
             IN  IF ~gen.ok
                 THEN GenerationError(called, fs, option, readOk)
                 ELSE LET got == [called EXCEPT
                                      !.response_text = gen.text,
                                      !.modified_html = Sanitize(gen.text)]
                      IN  IF ~IsValidHtml(got.modified_html)
                          THEN Rejected(got)
                          ELSE Accepted(got, t, option, readOk, writeRes, keepText)

----------------------------------------------------------------------------
(* Inputs *)

TemplateA == <<"<", "a", ">">>
TemplateB == <<"<", "b", ">">>
AHtml == <<"a">> \o DotHtml

\* the directory TEMPLATES_DIR names (line 97, read as the assignment of
\* os.path.join(os.path.dirname(__file__), "Templates") that its text holds)
\* when the page starts: a template, a template whose
\* name is only an extension, and a file that is not a template
InitialFiles ==
    (AHtml :> TemplateA) @@ (DotHtml :> TemplateB) @@ (<<"n", ".", "t", "x", "t">> :> <<"n">>)

\* what the user types into the instruction text area
Instructions == {<<>>, <<" ">>, <<" ", "g", "o", "\n">>}

LongBody == [i \in 1..LongLen |-> "x"]

\* response.text values the generation call returns to the page
SessionResponses ==
    { <<>>,
      <<"n", "o">>,
      LongBody,
      FenceHtmlNl \o <<"<", "x", ">">> \o NlFence }

\* results of generate_content(...).text: it raises, or it returns a text
GenOutcomes ==
    {[ok |-> FALSE, text |-> <<>>]} \cup {[ok |-> TRUE, text |-> r] : r \in SessionResponses}

WriteResults == {"ok", "open_failed", "write_failed"}
WebhookResults == {"200", "500", "exception"}

\* response texts for the sanitizer alone: leading blank, outer opening fence,
\* inner opening fence, body, inner closing fence, outer closing fence, blank
Blanks == {<<>>, <<" ">>, <<"\n">>}
Opens == {<<>>, FenceHtmlNl, FenceHtml, Fence, <<Backtick, Backtick>>}
InnerOpens == {<<>>, FenceHtmlNl, Fence}
Bodies ==
    { <<>>, <<"<">>, <<">">>, <<"<", ">">>, <<">", "<">>, <<"x">>,
      <<"<", "x", ">">>, <<" ", "<", "x", ">", "\n">>, <<"h", "t", "m", "l">>,
      <<"<", " ", ">">>, LongBody, <<"<">> \o LongBody \o <<">">> }
InnerCloses == {<<>>, NlFence, Fence}
Closes == {<<>>, NlFence, Fence, <<Backtick, Backtick>>}

Responses ==
    { l \o o \o io \o b \o ic \o c \o t :
        l \in Blanks, o \in Opens, io \in InnerOpens, b \in Bodies,
        ic \in InnerCloses, c \in Closes, t \in Blanks }

----------------------------------------------------------------------------
(* The page *)

\* lines 142-159: session state of a new session, before the first script run
Init ==
    /\ files = InitialFiles
    /\ api_key \in BOOLEAN
    /\ now = 0
    /\ html_selector = NoName
    /\ session_state = [selected_file_content |-> <<>>,
                        displayed_html_content |-> <<>>,
                        selected_file_name |-> NoName,
                        ai_prompt_input |-> <<>>]
    /\ entry = session_state
    /\ messages = <<>>
    /\ gen_calls = 0
    /\ gen_request = NoRequest
    /\ response_text = <<>>
    /\ modified_html = <<>>
    /\ outcome = "start"
    /\ written = NoName

\* a script run in which "Generate AI Changes" is not clicked
NoRewrite ==
    /\ gen_calls' = 0
    /\ gen_request' = NoRequest
    /\ response_text' = <<>>
    /\ modified_html' = <<>>
    /\ written' = NoName

\* the first script run: selected_file_name is None, so the selectbox shows index 0
\* of os.listdir, whose order is arbitrary
PageLoad(option, readOk) ==
    /\ html_selector = NoName
    /\ option \in HtmlFiles(files)
    /\ html_selector' = option
    /\ session_state' = ScriptTop(session_state, files, option, readOk)
    /\ messages' = TopMessages(session_state, files, option, readOk)
    /\ entry' = session_state'
    /\ outcome' = "loaded"
    /\ NoRewrite
    /\ UNCHANGED <<files, api_key, now>>

\* the user picks another entry of the selectbox (lines 171-189)
SelectTemplate(option, readOk) ==
    /\ html_selector # NoName
    /\ option \in HtmlFiles(files)
    /\ option # html_selector
    /\ html_selector' = option
    /\ session_state' = ScriptTop(session_state, files, option, readOk)
    /\ messages' = TopMessages(session_state, files, option, readOk)
    /\ entry' = session_state'
    /\ outcome' = "selected"
    /\ NoRewrite
    /\ UNCHANGED <<files, api_key, now>>

\* the user edits the instruction (line 233); the script runs with the new text
EditInstruction(text, readOk) ==
    /\ html_selector # NoName
    /\ session_state' =
          [ScriptTop(session_state, files, html_selector, readOk)
              EXCEPT !.ai_prompt_input = text]
    /\ messages' = TopMessages(session_state, files, html_selector, readOk)
    /\ entry' = session_state'
    /\ outcome' = "edited"
    /\ NoRewrite
    /\ UNCHANGED <<files, api_key, now, html_selector>>

\* "Generate AI Changes" is clicked (lines 240-306)
Rewrite(gen, readOk, writeRes, keepText) ==
    /\ html_selector # NoName
    /\ LET r == RewriteRun(session_state, files, api_key, now, html_selector,
                           gen, readOk, writeRes, keepText)
       IN  /\ Cardinality(DOMAIN r.files) <= MaxFiles
           /\ session_state' = r.ss
           /\ entry' = r.entry
           /\ files' = r.files
           /\ messages' = r.messages
           /\ gen_calls' = r.gen_calls
           /\ gen_request' = r.gen_request
           /\ response_text' = r.response_text
           /\ modified_html' = r.modified_html
           /\ outcome' = r.outcome
           /\ written' = r.written
    /\ UNCHANGED <<api_key, now, html_selector>>

\* "Send Email" is clicked (lines 191-224); the button exists only while there is
\* content on display. The POST carries displayed_html_content as its body
Send(has_recipient, has_subject, webhook, readOk) ==
    /\ html_selector # NoName
    /\ session_state.displayed_html_content # <<>>
    /\ LET ss1 == ScriptTop(session_state, files, html_selector, readOk)
           top == TopMessages(session_state, files, html_selector, readOk)
       IN  /\ session_state' = ss1
           /\ entry' = ss1
           /\ IF ss1.displayed_html_content = <<>>
              THEN /\ messages' = top
                   /\ outcome' = "send_unavailable"
              ELSE IF ~has_recipient
              THEN /\ messages' = top \o <<Msg("error", "no_recipient", <<>>)>>
                   /\ outcome' = "send_refused"
              ELSE IF ~has_subject
              THEN /\ messages' = top \o <<Msg("error", "no_subject", <<>>)>>
                   /\ outcome' = "send_refused"
              ELSE /\ outcome' = "send_" \o webhook
                   /\ messages' = top \o
                        <<IF webhook = "200"
                          THEN Msg("success", "sent", ss1.displayed_html_content)
                          ELSE Msg("error", "send_failed", ss1.displayed_html_content)>>
    /\ NoRewrite
    /\ UNCHANGED <<files, api_key, now, html_selector>>

\* a second passes
Tick ==
    /\ now < MaxClock
    /\ now' = now + 1
    /\ UNCHANGED <<files, api_key, html_selector, session_state, entry, messages, gen_calls,
                   gen_request, response_text, modified_html, outcome, written>>

\* open() of line 182 is called, and can fail, only when the selection is loaded
ReadResults(option) ==
    IF HtmlFiles(files) # {} /\ NeedsLoad(session_state, option)
    THEN BOOLEAN ELSE {TRUE}

\* generate_content is called, and its result matters, only when the guards pass
GenResults(readOk) ==
    IF GuardOutcome(ScriptTop(session_state, files, html_selector, readOk), api_key) = "ok"
    THEN GenOutcomes ELSE {[ok |-> FALSE, text |-> <<>>]}

\* the copy is written, and the rerun follows, only when the validator accepts
SaveResults(gen) ==
    IF gen.ok /\ IsValidHtml(Sanitize(gen.text))
    THEN WriteResults \X BOOLEAN ELSE {<<"ok", FALSE>>}

Next ==
    \/ \E option \in HtmlFiles(files) : \E readOk \in ReadResults(option) :
          PageLoad(option, readOk)
    \/ \E option \in HtmlFiles(files) : \E readOk \in ReadResults(option) :
          SelectTemplate(option, readOk)
    \/ \E text \in Instructions : \E readOk \in ReadResults(html_selector) :
          EditInstruction(text, readOk)
    \/ \E readOk \in ReadResults(html_selector) : \E gen \in GenResults(readOk) :
          \E save \in SaveResults(gen) : Rewrite(gen, readOk, save[1], save[2])
    \/ \E has_recipient \in BOOLEAN, has_subject \in BOOLEAN,
          webhook \in WebhookResults : \E readOk \in ReadResults(html_selector) :
          Send(has_recipient, has_subject, webhook, readOk)
    \/ Tick

Spec == Init /\ [][Next]_vars

----------------------------------------------------------------------------
(* The sanitizer and the validator on their own: lines 272-282 applied to one
   response text *)

SanInit ==
    /\ files = InitialFiles
    /\ api_key = TRUE
    /\ now = 0
    /\ html_selector = NoName
    /\ session_state = [selected_file_content |-> <<>>,
                        displayed_html_content |-> <<>>,
                        selected_file_name |-> NoName,
                        ai_prompt_input |-> <<>>]
    /\ entry = session_state
    /\ messages = <<>>
    /\ gen_calls = 1
    /\ gen_request = NoRequest
    /\ response_text \in Responses
    /\ modified_html = <<>>
    /\ outcome = "raw"
    /\ written = NoName

\* lines 272-280
SanSanitize ==
    /\ outcome = "raw"
    /\ modified_html' = Sanitize(response_text)
    /\ outcome' = "sanitized"
    /\ UNCHANGED <<files, api_key, now, html_selector, session_state, entry, messages,
                   gen_calls, gen_request, response_text, written>>

\* line 282
SanValidate ==
    /\ outcome = "sanitized"
    /\ outcome' = IF IsValidHtml(modified_html) THEN "valid" ELSE "invalid"
    /\ UNCHANGED <<files, api_key, now, html_selector, session_state, entry, messages,
                   gen_calls, gen_request, response_text, modified_html, written>>

SanNext == SanSanitize \/ SanValidate

SpecSan == SanInit /\ [][SanNext]_vars

----------------------------------------------------------------------------
(* Reference notions the properties are stated with *)

\* s without its leading and trailing whitespace
Trimmed(s) ==
    LET keep == {i \in 1..Len(s) : s[i] \notin {" ", "\n", "\t"}}
    IN  IF keep = {} THEN <<>>
        ELSE SubSeq(s, CHOOSE i \in keep : \A j \in keep : i <= j,
                       CHOOSE i \in keep : \A j \in keep : j <= i)

\* s opens and closes with three backquotes
Fenced(s) ==
    /\ Len(s) >= 3
    /\ \A i \in 1..3 : s[i] = Backtick /\ s[Len(s) - 3 + i] = Backtick

\* s is non-empty, its first character is "<" and its last is ">"
LooksLikeHtml(s) == Len(s) > 0 /\ s[1] = "<" /\ s[Len(s)] = ">"

\* ts has the shape YYYYMMDD_HHMMSS
IsTimestamp(ts) ==
    /\ Len(ts) = 15
    /\ ts[9] = "_"
    /\ \A i \in (1..15) \ {9} :
          ts[i] \in {"0", "1", "2", "3", "4", "5", "6", "7", "8", "9"}

\* new is {base}_ai_edited_{YYYYMMDD_HHMMSS}{ext} for a split base, ext of original
IsEditedName(new, original) ==
    \E k \in 0..Len(original) :
        LET ext == SubSeq(original, k + 1, Len(original))
        IN  /\ ext = <<>> \/ ext[1] = "."
            /\ Len(new) = Len(original) + 26
            /\ SubSeq(new, 1, k) = SubSeq(original, 1, k)
            /\ SubSeq(new, k + 1, k + 11) = AiEdited
            /\ IsTimestamp(SubSeq(new, k + 12, k + 26))
            /\ SubSeq(new, k + 27, Len(new)) = ext

\* the three template fields of a session state
Template(ss) ==
    <<ss.selected_file_name, ss.selected_file_content, ss.displayed_html_content>>

Errors(msgs) == {i \in 1..Len(msgs) : msgs[i].level = "error"}

----------------------------------------------------------------------------
(* Properties *)

\* C1: a response "(fence)html\n" X "\n(fence)", X starting with "<" and ending
\* with ">", is sanitized to X exactly.
C1_FencedHtmlUnwrapped ==
    outcome \in {"sanitized", "valid", "invalid"} =>
        LET n == Len(response_text)
            X == SubSeq(response_text, 9, n - 4)
        IN  (n >= 13 /\ response_text = FenceHtmlNl \o X \o NlFence /\ LooksLikeHtml(X))
                => modified_html = X

C1_Witness ==
    /\ outcome = "sanitized"
    /\ response_text = FenceHtmlNl \o <<"<", " ", ">">> \o NlFence
    /\ modified_html = <<"<", " ", ">">>

\* C2 as stated: a response that does not both start and end with a fence is
\* sanitized to itself, trimmed.
C2_UnfencedRawIsTrimmed ==
    outcome \in {"sanitized", "valid", "invalid"} =>
        (~Fenced(response_text) => modified_html = Trimmed(response_text))

\* C2 amended: a response whose trimmed form does not both start and end with a
\* fence is sanitized to that trimmed form.
C2_UnfencedTrimmedIsTrimmed ==
    outcome \in {"sanitized", "valid", "invalid"} =>
        (~Fenced(Trimmed(response_text)) => modified_html = Trimmed(response_text))

C2_Witness ==
    /\ outcome = "sanitized"
    /\ ~Fenced(Trimmed(response_text))
    /\ response_text = <<" ">> \o Fence \o <<"<", "x", ">">> \o <<"\n">>
    /\ modified_html = Fence \o <<"<", "x", ">">>

\* C3: the validator accepts exactly the non-empty strings that start with "<" and
\* end with ">"; a response made of fence markers only is sanitized to the empty
\* string and rejected.
C3_ValidatorRule ==
    outcome \in {"valid", "invalid"} =>
        /\ (outcome = "valid") <=> LooksLikeHtml(modified_html)
        /\ response_text \in {Fence, Fence \o Fence, FenceHtml \o Fence,
                              FenceHtmlNl \o Fence, FenceHtmlNl \o NlFence}
              => (modified_html = <<>> /\ outcome = "invalid")

C3_Witness ==
    /\ outcome = "invalid"
    /\ response_text = FenceHtmlNl \o Fence
    /\ modified_html = <<>>

\* C9: a trimmed response that starts with "(fence)html" and ends with a fence loses
\* exactly that opener and that closer, another fenced response loses exactly the
\* two fences, and what is left is only trimmed: an inner layer of fences stays.
C9_FirstMatchingRuleOnce ==
    outcome \in {"sanitized", "valid", "invalid"} =>
        LET t == Trimmed(response_text)
            n == Len(t)
        IN  /\ (Fenced(t) /\ StartsWith(t, FenceHtml))
                  => modified_html = Trimmed(SubSeq(t, 8, n - 3))
            /\ (Fenced(t) /\ ~StartsWith(t, FenceHtml))
                  => modified_html = Trimmed(SubSeq(t, 4, n - 3))

C9_Witness ==
    /\ outcome = "sanitized"
    /\ response_text = FenceHtmlNl \o FenceHtmlNl \o <<"<", "x", ">">> \o NlFence \o NlFence
    /\ modified_html = FenceHtmlNl \o <<"<", "x", ">">> \o NlFence

\* C4: a rewrite the validator rejects writes no file, leaves the selected name, its
\* content and the displayed content as the handler found them, and reports one
\* error that quotes the first 200 characters of the rejected text.
C4_RejectedWritesNothing ==
    [][outcome' = "rejected" =>
          /\ files' = files
          /\ written' = NoName
          /\ Template(session_state') = Template(entry')
          /\ \E i \in Errors(messages') :
                /\ messages'[i].kind = "invalid_html"
                /\ LET quoted == SubSeq(modified_html', 1,
                                        IF Len(modified_html') < 200
                                        THEN Len(modified_html') ELSE 200)
                   IN  /\ Len(messages'[i].detail) >= Len(quoted)
                       /\ SubSeq(messages'[i].detail, 1, Len(quoted)) = quoted]_vars

C4_Witness ==
    /\ outcome = "rejected"
    /\ Len(modified_html) > 200
    /\ Len(messages[1].detail) = 203
    /\ session_state.displayed_html_content # <<>>

\* C5: a step that changes the directory is a rewrite that writes one file, named
\* {base}_ai_edited_{YYYYMMDD_HHMMSS}{ext} after the selected template and different
\* from it; the selected template file and every other file keep their content.
C5_OriginalNeverWritten ==
    [][LET name == session_state'.selected_file_name
       IN  /\ name \in DOMAIN files => (name \in DOMAIN files' /\ files'[name] = files[name])
           /\ files' # files =>
                 /\ written' # NoName
                 /\ written' # name
                 /\ IsEditedName(written', name)
                 /\ \A f \in DOMAIN files :
                       f # written' => (f \in DOMAIN files' /\ files'[f] = files[f])]_vars

C5_Witness ==
    /\ outcome = "saved"
    /\ session_state.selected_file_name = DotHtml
    /\ written \in DOMAIN files
    /\ files[written] = modified_html
    /\ files[DotHtml] = TemplateB

\* C6: a rewrite result is either accepted, that is on display and written to a
\* file, or discarded with an error, the display left as it was; never on display
\* without having been written.
C6_AcceptedIsWritten ==
    outcome \in {"saved", "save_failed", "rejected"} =>
        LET accepted ==
                /\ session_state.displayed_html_content = modified_html
                /\ written \in DOMAIN files
                /\ files[written] = modified_html
            discarded ==
                /\ session_state.displayed_html_content = entry.displayed_html_content
                /\ written = NoName
                /\ Errors(messages) # {}
        IN  accepted \/ discarded

\* C7: a rewrite request makes at most one generation call, and only with a
\* non-blank instruction, an API key and a non-empty template; when a guard fails
\* there is no call, no file is written and the session state stays as it was.
C7_GuardedGeneration ==
    [][/\ gen_calls' \in {0, 1}
       /\ gen_calls' = 1 =>
             /\ Trimmed(entry'.ai_prompt_input) # <<>>
             /\ api_key'
             /\ entry'.selected_file_content # <<>>
       /\ outcome' \in {"no_prompt", "no_api_key", "no_template"} =>
             /\ \/ Trimmed(entry'.ai_prompt_input) = <<>>
                \/ ~api_key'
                \/ entry'.selected_file_content = <<>>
             /\ gen_calls' = 0
             /\ files' = files
             /\ written' = NoName
             /\ session_state' = entry']_vars

C7_Witness ==
    /\ outcome = "no_prompt"
    /\ session_state.ai_prompt_input = <<" ">>
    /\ api_key
    /\ session_state.selected_file_content # <<>>
    /\ gen_calls = 0

====
